---- MODULE Spec2Model ----
(***************************************************************************)
(* The HTTP dispatch queue of the Shelly BLU button scripts:               *)
(*   src/shelly/Shellyblu-button.js  lines   1..196  (variant "blu1")      *)
(*   src/shelly/Shellyblu-button.js  lines 198..383  (variant "blu2")      *)
(*   src/unnamed/part_000                            (variant "part0")     *)
(* The three scripts share _queueLen, _compactQueueIfNeeded,               *)
(* _dropOldestIfFull, _enqueue, _dequeue and getURL verbatim and differ in *)
(* the completion callback of _processOne and in the server address.       *)
(*                                                                         *)
(* A URL is a sequence of tokens (the pieces the scripts concatenate), so  *)
(* that String.indexOf is a real substring search.                         *)
(*                                                                         *)
(* Fields id and att of a job, and the variables fifo, nextId, enqLog,     *)
(* retryEnqs, lastCall and last, are history (ghost) state: the code never *)
(* reads them.                                                             *)
(* id numbers the _enqueue calls that pushed a job, att is the number of   *)
(* earlier dispatches of the same original request.                        *)
(***************************************************************************)
EXTENDS Integers, Sequences, FiniteSets

\* ------------------------------------------------------------------ bounds
\* largest MAX_QUEUE_LEN the user config is drawn from
MaxCap == 3
\* an event handler pushes a job only while fewer than MaxJobs jobs have
\* been pushed in the run
MaxJobs == 4
\* retry re-enqueues (failures that take the retry branch) in one run
MaxRetryEnq == 2
\* consumed slots in front of the queue in the long-running initial state
WarmHead == 19

\* ------------------------------------------------------- program constants
\* _compactQueueIfNeeded: "_qHead > 20"
COMPACT_MIN_HEAD == 20
\* null, and the handle Timer.set returns
NULL == "null"
TIMER_HANDLE == "timer"
\* a job reference that is null is the empty sequence, one that holds the
\* job j is <<j>>
NoJob == <<>>
Variants == {"blu1", "blu2", "part0"}
\* MAX_RETRIES of the user config: 0 as shipped, and 1, which turns the retry
\* branch on (job.retries is compared with it and nothing else is)
RetryConfigs == {0, 1}

VARIABLES
    variant,        \* which of the three scripts runs
    MAX_QUEUE_LEN,  \* user config
    MAX_RETRIES,    \* user config
    _q,             \* backing array of jobs
    _qHead,         \* index of the oldest pending job (0-based, as in the code)
    _busy,
    _tickHandle,
    inflight,       \* HTTP.Request calls issued and not yet completed: the
                    \* job each pending completion callback has captured
    fifo,           \* ghost: a plain FIFO driven by the same push/pop/drop
    nextId,         \* ghost: number of _enqueue calls that pushed a job, + 1
    enqLog,         \* ghost: the URL of every job pushed, by id
    retryEnqs,      \* ghost: number of retry re-enqueues so far
    lastCall,       \* ghost: id of the job HTTP.Request was last issued for
    last            \* ghost: what the last step did

vars == <<variant, MAX_QUEUE_LEN, MAX_RETRIES, _q, _qHead, _busy, _tickHandle,
          inflight, fifo, nextId, enqLog, retryEnqs, lastCall, last>>

\* ------------------------------------------------------------------- URLs
SERVER_URL(v) ==
    IF v = "blu2" THEN <<"http://", "192.168.178.5:8181">>
                  ELSE <<"http://", "172.16.0.5:8181">>

\* the string whose presence in job.url selects the fallback
PRIMARY_ORIGIN(v) ==
    IF v = "part0" THEN <<"172.16.0.5:8181">> ELSE SERVER_URL(v)

black2(v) == SERVER_URL(v) \o <<"/on">>
black4 == <<"http://", "127.0.0.1", "/relay/0?turn=toggle">>
blue3 == <<>>
FALLBACK_URL == <<"http://", "127.0.0.1", "/relay/0?turn=on">>

\* the URLs the event handler passes to getURL
ExtURLs(v) == {black2(v), black4, blue3}

\* String.prototype.indexOf: first 0-based position of needle, or -1
IndexOf(s, needle) ==
    LET hits == {i \in 0..(Len(s) - Len(needle)) :
                    SubSeq(s, i + 1, i + Len(needle)) = needle}
    IN  IF hits = {} THEN -1
        ELSE CHOOSE i \in hits : \A k \in hits : i <= k

\* ------------------------------------------------------------ queue store
_queueLen(q, h) == Len(q) - h

\* the pending jobs, oldest first: _q[_qHead], ..., _q[_q.length - 1]
Logical(q, h) == SubSeq(q, h + 1, Len(q))

\* mutant: the copy loop starts one slot late
_compactQueueIfNeeded_skipOne(q, h) ==
    IF h > COMPACT_MIN_HEAD /\ h * 2 > Len(q)
    THEN [q |-> Logical(q, h + 1), h |-> 0, fired |-> TRUE]
    ELSE [q |-> q, h |-> h, fired |-> FALSE]

\* mutant: the copy is installed but "_qHead = 0" is missing
_compactQueueIfNeeded_keepHead(q, h) ==
    IF h > COMPACT_MIN_HEAD /\ h * 2 > Len(q)
    THEN [q |-> Logical(q, h), h |-> h, fired |-> TRUE]
    ELSE [q |-> q, h |-> h, fired |-> FALSE]

_compactQueueIfNeeded(q, h) ==
    IF h > COMPACT_MIN_HEAD /\ h * 2 > Len(q)
    THEN [q |-> Logical(q, h), h |-> 0, fired |-> TRUE]
    ELSE [q |-> q, h |-> h, fired |-> FALSE]

\* mutant: "<=" for "<", so a full queue is not trimmed
_dropOldestIfFull_offByOne(q, h, cap) ==
    IF _queueLen(q, h) <= cap
    THEN [q |-> q, h |-> h, fired |-> FALSE, evicted |-> <<>>]
    ELSE LET c == _compactQueueIfNeeded(q, h + 1)
         IN  [q |-> c.q, h |-> c.h, fired |-> c.fired,
              evicted |-> IF h < Len(q) THEN <<q[h + 1]>> ELSE <<>>]

\* mutant: the newest pending job is dropped instead of the oldest
_dropOldestIfFull_newest(q, h, cap) ==
    IF _queueLen(q, h) < cap
    THEN [q |-> q, h |-> h, fired |-> FALSE, evicted |-> <<>>]
    ELSE [q |-> SubSeq(q, 1, Len(q) - 1), h |-> h, fired |-> FALSE,
          evicted |-> IF h < Len(q) THEN <<q[Len(q)]>> ELSE <<>>]

_dropOldestIfFull(q, h, cap) ==
    IF _queueLen(q, h) < cap
    THEN [q |-> q, h |-> h, fired |-> FALSE, evicted |-> <<>>]
    ELSE LET c == _compactQueueIfNeeded(q, h + 1)
         IN  [q |-> c.q, h |-> c.h, fired |-> c.fired,
              evicted |-> IF h < Len(q) THEN <<q[h + 1]>> ELSE <<>>]

\* _enqueue(url) on the store (q, h) and timer handle th; id and att are the
\* ghost fields of the job pushed
NewJob(url, id, att) == [url |-> url, retries |-> 0, id |-> id, att |-> att]

\* mutant: the "if (!url || url === \"\") return;" line is missing
_enqueue_noEmptyCheck(q, h, th, cap, url, id, att) ==
    LET d == _dropOldestIfFull(q, h, cap)
    IN  [q |-> Append(d.q, NewJob(url, id, att)),
         h |-> d.h,
         th |-> IF th = NULL THEN TIMER_HANDLE ELSE th,
         pushed |-> TRUE, fired |-> d.fired, evicted |-> d.evicted,
         timerSet |-> (th = NULL)]

\* mutant: Timer.set is called on every push, without the null test
_enqueue_alwaysSet(q, h, th, cap, url, id, att) ==
    IF url = <<>>
    THEN [q |-> q, h |-> h, th |-> th, pushed |-> FALSE, fired |-> FALSE,
          evicted |-> <<>>, timerSet |-> FALSE]
    ELSE LET d == _dropOldestIfFull(q, h, cap)
         IN  [q |-> Append(d.q, NewJob(url, id, att)),
              h |-> d.h,
              th |-> TIMER_HANDLE,
              pushed |-> TRUE, fired |-> d.fired, evicted |-> d.evicted,
              timerSet |-> TRUE]

\* mutant: the push does not arm the timer
_enqueue_noTimer(q, h, th, cap, url, id, att) ==
    IF url = <<>>
    THEN [q |-> q, h |-> h, th |-> th, pushed |-> FALSE, fired |-> FALSE,
          evicted |-> <<>>, timerSet |-> FALSE]
    ELSE LET d == _dropOldestIfFull(q, h, cap)
         IN  [q |-> Append(d.q, NewJob(url, id, att)),
              h |-> d.h,
              th |-> th,
              pushed |-> TRUE, fired |-> d.fired, evicted |-> d.evicted,
              timerSet |-> FALSE]

_enqueue(q, h, th, cap, url, id, att) ==
    IF url = <<>>
    THEN [q |-> q, h |-> h, th |-> th, pushed |-> FALSE, fired |-> FALSE,
          evicted |-> <<>>, timerSet |-> FALSE]
    ELSE LET d == _dropOldestIfFull(q, h, cap)
         IN  [q |-> Append(d.q, NewJob(url, id, att)),
              h |-> d.h,
              th |-> IF th = NULL THEN TIMER_HANDLE ELSE th,
              pushed |-> TRUE, fired |-> d.fired, evicted |-> d.evicted,
              timerSet |-> (th = NULL)]

\* mutant: the newest job is read instead of the one at the head
_dequeue_newest(q, h) ==
    IF _queueLen(q, h) <= 0
    THEN [q |-> q, h |-> h, job |-> NoJob, fired |-> FALSE]
    ELSE LET c == _compactQueueIfNeeded(q, h + 1)
         IN  [q |-> c.q, h |-> c.h, job |-> <<q[Len(q)]>>, fired |-> c.fired]

\* mutant: the head job is read but "_qHead++" is missing
_dequeue_noAdvance(q, h) ==
    IF _queueLen(q, h) <= 0
    THEN [q |-> q, h |-> h, job |-> NoJob, fired |-> FALSE]
    ELSE LET c == _compactQueueIfNeeded(q, h)
         IN  [q |-> c.q, h |-> c.h, job |-> <<q[h + 1]>>, fired |-> c.fired]

_dequeue(q, h) ==
    IF _queueLen(q, h) <= 0
    THEN [q |-> q, h |-> h, job |-> NoJob, fired |-> FALSE]
    ELSE LET c == _compactQueueIfNeeded(q, h + 1)
         IN  [q |-> c.q, h |-> c.h, job |-> <<q[h + 1]>>, fired |-> c.fired]

\* the plain FIFO the store is compared with
FifoPush(f, cap, j) == Append(IF Len(f) >= cap THEN Tail(f) ELSE f, j)
FifoPop(f) == IF f = <<>> THEN f ELSE Tail(f)

\* ------------------------------------------------------------------- Init
NoLast == [op |-> "init", url |-> <<>>, pushed |-> FALSE, evicted |-> <<>>,
           compacted |-> FALSE, timerSet |-> FALSE, issued |-> <<>>,
           ok |-> FALSE, threw |-> FALSE, enq |-> <<>>, diag |-> <<>>]

\* a job that was enqueued and dispatched before the run starts
OldJob == [url |-> black4, retries |-> 0, id |-> 0, att |-> 0]

\* the user config and the idle dispatcher, common to both initial states
InitCommon ==
    /\ variant \in Variants
    /\ MAX_QUEUE_LEN \in 1..MaxCap
    /\ MAX_RETRIES \in RetryConfigs
    /\ _busy = FALSE
    /\ inflight = <<>>
    /\ fifo = <<>>
    /\ nextId = 1
    /\ enqLog = <<>>
    /\ retryEnqs = 0
    /\ lastCall = 0
    /\ last = NoLast

\* the state after the script is loaded
Init ==
    /\ InitCommon
    /\ _q = <<>>
    /\ _qHead = 0
    /\ _tickHandle = NULL

\* the state of a script that has run for a while: WarmHead times
\* getURL(black4), a tick and a successful completion, so that the queue is
\* empty, the dispatcher idle, the timer armed and WarmHead consumed slots
\* sit in front of the head
InitLongRun ==
    /\ InitCommon
    /\ _q = [i \in 1..WarmHead |-> OldJob]
    /\ _qHead = WarmHead
    /\ _tickHandle = TIMER_HANDLE

\* ----------------------------------------------------------------- getURL
\* an event handler calls getURL(url), which calls _enqueue(url)
getURL(url) ==
    LET e == _enqueue(_q, _qHead, _tickHandle, MAX_QUEUE_LEN, url, nextId, 0)
    IN  /\ e.pushed => nextId <= MaxJobs
        /\ _q' = e.q
        /\ _qHead' = e.h
        /\ _tickHandle' = e.th
        /\ nextId' = IF e.pushed THEN nextId + 1 ELSE nextId
        /\ enqLog' = IF e.pushed THEN Append(enqLog, url) ELSE enqLog
        /\ fifo' = IF e.pushed
                   THEN FifoPush(fifo, MAX_QUEUE_LEN, NewJob(url, nextId, 0))
                   ELSE fifo
        /\ last' = [NoLast EXCEPT !.op = "enqueue", !.url = url,
                                  !.pushed = e.pushed, !.evicted = e.evicted,
                                  !.compacted = e.fired, !.timerSet = e.timerSet]
        /\ UNCHANGED <<variant, MAX_QUEUE_LEN, MAX_RETRIES, _busy, inflight,
                       retryEnqs, lastCall>>

Press == \E url \in ExtURLs(variant) : getURL(url)

\* ------------------------------------------------------------ _processOne
\* mutant: the busy check is missing
BusyCheck_off(busy) == FALSE

\* "if (_busy) return;"
BusyCheck(busy) == busy

\* one firing of the recurring timer
_processOne ==
    /\ _tickHandle # NULL
    /\ IF BusyCheck(_busy)
       THEN /\ last' = [NoLast EXCEPT !.op = "tick"]
            /\ UNCHANGED <<_q, _qHead, _busy, inflight, fifo, lastCall>>
       ELSE LET d == _dequeue(_q, _qHead)
            IN  /\ _q' = d.q
                /\ _qHead' = d.h
                /\ fifo' = FifoPop(fifo)
                /\ IF d.job = NoJob
                   THEN /\ last' = [NoLast EXCEPT !.op = "tick"]
                        /\ UNCHANGED <<_busy, inflight, lastCall>>
                   ELSE /\ _busy' = TRUE
                        /\ inflight' = Append(inflight, d.job[1])
                        /\ lastCall' = d.job[1].id
                        /\ last' = [NoLast EXCEPT !.op = "tick",
                                                  !.compacted = d.fired,
                                                  !.issued = <<d.job[1].url>>]
    /\ UNCHANGED <<variant, MAX_QUEUE_LEN, MAX_RETRIES, _tickHandle, nextId,
                   enqLog, retryEnqs>>

\* --------------------------------------------------- completion callback
\* what HTTP.Request hands to the callback: err, and res (<<>> when absent)
Bodies == {"{\"action\":\"fan on\"}", "{\"ison\":true}", "{\"ison\":false}",
           "<html>Bad Gateway</html>"}
Codes == {199, 200, 299, 300}
Responses ==
    {[err |-> 0, res |-> <<[code |-> 200, body |-> b]>>] : b \in Bodies}
    \cup {[err |-> 0, res |-> <<[code |-> c, body |-> "<html>Bad Gateway</html>"]>>] :
             c \in Codes}
    \cup {[err |-> -1, res |-> <<>>]}

\* ok = (err === 0 && res && res.code >= 200 && res.code < 300)
Classify(r) ==
    /\ r.err = 0
    /\ r.res # <<>>
    /\ r.res[1].code >= 200
    /\ r.res[1].code < 300

\* JSON.parse(body): throws SyntaxError on text that is not JSON
JSON_parse(body) ==
    CASE body = "{\"action\":\"fan on\"}" ->
            [threw |-> FALSE, action |-> <<"fan on">>, ison |-> FALSE]
      [] body = "{\"ison\":true}" ->
            [threw |-> FALSE, action |-> <<>>, ison |-> TRUE]
      [] body = "{\"ison\":false}" ->
            [threw |-> FALSE, action |-> <<>>, ison |-> FALSE]
      [] OTHER ->
            [threw |-> TRUE, action |-> <<>>, ison |-> FALSE]

\* the "if (ok) { ... }" block: only variant blu1 reads the body
OnSuccess(v, r) ==
    IF v # "blu1"
    THEN [threw |-> FALSE, trace |-> <<>>]
    ELSE LET p == JSON_parse(r.res[1].body)
         IN  IF p.threw THEN [threw |-> TRUE, trace |-> <<>>]
             ELSE IF p.action # <<>>
                  THEN [threw |-> FALSE, trace |-> <<<<"<-- ", p.action[1]>>>>]
             ELSE IF p.ison
                  THEN [threw |-> FALSE, trace |-> <<<<"<-- Plug EIN">>>>]
                  ELSE [threw |-> FALSE, trace |-> <<<<"<-- Plug AUS">>>>]

FailRecord(url, r) ==
    [url |-> url, err |-> r.err,
     code |-> IF r.res # <<>> THEN r.res[1].code ELSE -1]

\* mutant: the failure record is printed in every case
OnTerminal_alwaysPrint(v, url, r) ==
    [fallback |-> IndexOf(url, PRIMARY_ORIGIN(v)) >= 0,
     diag |-> <<FailRecord(url, r)>>]

\* the else branch of "if (job.retries < MAX_RETRIES)"
OnTerminal(v, url, r) ==
    LET primary == IndexOf(url, PRIMARY_ORIGIN(v)) >= 0
    IN  IF v = "part0"
        THEN [fallback |-> primary, diag |-> <<FailRecord(url, r)>>]
        ELSE IF primary
             THEN [fallback |-> TRUE, diag |-> <<>>]
             ELSE [fallback |-> FALSE, diag |-> <<FailRecord(url, r)>>]

\* mutant: "<=" for "<" in the retry test
Callback_retryLeq(v, maxRetries, j, r) ==
    LET ok == Classify(r)
        s == OnSuccess(v, r)
        t == OnTerminal(v, j.url, r)
    IN  IF ok
        THEN [ok |-> TRUE, threw |-> s.threw, trace |-> s.trace, retry |-> FALSE,
              fallback |-> FALSE, diag |-> <<>>, clearBusy |-> ~s.threw]
        ELSE IF j.retries <= maxRetries
        THEN [ok |-> FALSE, threw |-> FALSE, trace |-> <<>>, retry |-> TRUE,
              fallback |-> FALSE, diag |-> <<>>, clearBusy |-> TRUE]
        ELSE [ok |-> FALSE, threw |-> FALSE, trace |-> <<>>, retry |-> FALSE,
              fallback |-> t.fallback, diag |-> t.diag, clearBusy |-> TRUE]

\* the callback of HTTP.Request for job j and response r, as its effects:
\* threw: an exception left the callback before "_busy = false"
Callback(v, maxRetries, j, r) ==
    LET ok == Classify(r)
        s == OnSuccess(v, r)
        t == OnTerminal(v, j.url, r)
    IN  IF ok
        THEN [ok |-> TRUE, threw |-> s.threw, trace |-> s.trace, retry |-> FALSE,
              fallback |-> FALSE, diag |-> <<>>, clearBusy |-> ~s.threw]
        ELSE IF j.retries < maxRetries
        THEN [ok |-> FALSE, threw |-> FALSE, trace |-> <<>>, retry |-> TRUE,
              fallback |-> FALSE, diag |-> <<>>, clearBusy |-> TRUE]
        ELSE [ok |-> FALSE, threw |-> FALSE, trace |-> <<>>, retry |-> FALSE,
              fallback |-> t.fallback, diag |-> t.diag, clearBusy |-> TRUE]

\* job.retries++ : the job object may still sit in a consumed slot of _q
BumpRetries(q, id) ==
    [i \in DOMAIN q |->
        IF q[i].id = id THEN [q[i] EXCEPT !.retries = @ + 1] ELSE q[i]]

RemoveAt(s, i) == SubSeq(s, 1, i - 1) \o SubSeq(s, i + 1, Len(s))

\* a pending HTTP.Request completes and its callback runs
Complete ==
    \E i \in DOMAIN inflight, r \in Responses :
        LET j == inflight[i]
            fx == Callback(variant, MAX_RETRIES, j, r)
            q1 == IF fx.retry THEN BumpRetries(_q, j.id) ELSE _q
            url == IF fx.retry THEN j.url
                   ELSE IF fx.fallback THEN FALLBACK_URL ELSE <<>>
            att == IF fx.retry THEN j.att + 1 ELSE 0
            e == _enqueue(q1, _qHead, _tickHandle, MAX_QUEUE_LEN, url, nextId, att)
        IN  /\ fx.retry => retryEnqs < MaxRetryEnq
            /\ retryEnqs' = IF fx.retry THEN retryEnqs + 1 ELSE retryEnqs
            /\ inflight' = RemoveAt(inflight, i)
            /\ _q' = e.q
            /\ _qHead' = e.h
            /\ _tickHandle' = e.th
            /\ _busy' = IF fx.clearBusy THEN FALSE ELSE _busy
            /\ nextId' = IF e.pushed THEN nextId + 1 ELSE nextId
            /\ enqLog' = IF e.pushed THEN Append(enqLog, url) ELSE enqLog
            /\ fifo' = IF e.pushed
                       THEN FifoPush(fifo, MAX_QUEUE_LEN, NewJob(url, nextId, att))
                       ELSE fifo
            /\ last' = [NoLast EXCEPT
                          !.op = "complete", !.url = j.url, !.ok = fx.ok,
                          !.threw = fx.threw,
                          !.diag = fx.diag,
                          !.enq = IF fx.retry THEN <<[url |-> url, why |-> "retry"]>>
                                  ELSE IF fx.fallback
                                       THEN <<[url |-> url, why |-> "fallback"]>>
                                       ELSE <<>>,
                          !.pushed = e.pushed, !.evicted = e.evicted,
                          !.compacted = e.fired, !.timerSet = e.timerSet]
            /\ UNCHANGED <<variant, MAX_QUEUE_LEN, MAX_RETRIES, lastCall>>

Next == Press \/ _processOne \/ Complete

Spec == Init /\ [][Next]_vars

SpecLongRun == InitLongRun /\ [][Next]_vars

\* The recurring timer (Timer.set(CALL_TICK_MS, true, _processOne)) keeps
\* firing, and every HTTP.Request completes (the call carries a timeout).
SpecFair == Init /\ [][Next]_vars /\ WF_vars(_processOne) /\ WF_vars(Complete)

\* ===================================================================== claims
Pending == Logical(_q, _qHead)
Ids(seq) == [k \in DOMAIN seq |-> seq[k].id]
IsPrimary(url) == IndexOf(url, PRIMARY_ORIGIN(variant)) >= 0

\* C1: in every reachable state the logical queue length _q.length - _qHead
\* is at most MAX_QUEUE_LEN, whoever called _enqueue (an event handler, the
\* retry branch or the fallback branch).
C1_LenBounded == _queueLen(_q, _qHead) <= MAX_QUEUE_LEN

\* C1 witness: the completion callback has just enqueued into a full queue,
\* evicting a job, and the queue is full again.
C1_Witness ==
    /\ last.op = "complete"
    /\ last.pushed
    /\ Len(last.evicted) = 1
    /\ _queueLen(_q, _qHead) = MAX_QUEUE_LEN
    /\ MAX_QUEUE_LEN = 3

\* C2: single-flight: at most one HTTP.Request issued by the engine is
\* outstanding in every reachable state.
C2_SingleFlight == Len(inflight) <= 1

\* C2 witness: the request for the fallback job is outstanding, jobs are
\* pending, and a tick has just fired without issuing anything.
C2_Witness ==
    /\ Len(inflight) = 1
    /\ inflight[1].url = FALLBACK_URL
    /\ last.op = "tick"
    /\ last.issued = <<>>
    /\ _queueLen(_q, _qHead) >= 2

\* C3 (as claimed): whenever the completion callback has run, for any
\* outcome, _busy is false.
C3_BusyCleared == last.op = "complete" => ~_busy

\* C4 (as claimed): a request whose calls keep failing is dispatched at most
\* 1 + MAX_RETRIES times: no job in flight has more than MAX_RETRIES earlier
\* dispatches of the same original request behind it.
C4_RetryBound == \A k \in DOMAIN inflight : inflight[k].att <= MAX_RETRIES

\* the step is the completion callback of a failed call to the primary
\* server, with MAX_RETRIES = 0
C5_Case ==
    /\ MAX_RETRIES = 0
    /\ last'.op = "complete"
    /\ ~last'.ok
    /\ IsPrimary(last'.url)

TerminalFailure ==
    /\ last.op = "complete"
    /\ ~last.ok
    /\ last.enq = <<>> \/ last.enq[1].why = "fallback"

HasFallback == last.enq # <<>> /\ last.enq[1].url = FALLBACK_URL
HasDiag ==
    /\ Len(last.diag) = 1
    /\ last.diag[1].url = last.url
    /\ last.diag[1].err \in {0, -1}
    /\ last.diag[1].code \in Codes \cup {-1}

\* C6 (as claimed): on terminal failure exactly one terminal action is
\* taken: the diagnostic record and no fallback for a non-primary URL, the
\* fallback and no diagnostic record for a primary URL.
C6_ExactlyOneAction ==
    TerminalFailure =>
        IF IsPrimary(last.url)
        THEN HasFallback /\ last.diag = <<>>
        ELSE HasDiag /\ last.enq = <<>>

\* C6 (amended): a non-primary URL produces exactly one diagnostic record
\* and no fallback; a primary URL produces the fallback, without the
\* diagnostic record in Shellyblu-button.js and together with it in
\* part_000.
C6_TerminalAction ==
    TerminalFailure =>
        IF IsPrimary(last.url)
        THEN /\ HasFallback
             /\ IF variant = "part0" THEN HasDiag ELSE last.diag = <<>>
        ELSE HasDiag /\ last.enq = <<>>

\* C6 witness: part_000 has just taken both actions for a primary URL.
C6_Witness ==
    /\ TerminalFailure
    /\ variant = "part0"
    /\ IsPrimary(last.url)
    /\ HasFallback
    /\ HasDiag

\* C7: with MAX_RETRIES = 0 the HTTP calls are issued in the order of the
\* _enqueue calls that pushed their jobs: each call issued is for a job
\* pushed later than the job of the call before it, and for that job's URL.
C7_FIFO ==
    [][(MAX_RETRIES = 0 /\ last'.issued # <<>>) =>
         /\ lastCall' > lastCall
         /\ lastCall' \in DOMAIN enqLog
         /\ last'.issued = <<enqLog[lastCall']>>]_vars

\* C7 witness: the fallback job (pushed after the failed primary job was
\* dispatched) has just been dispatched by a tick that also compacted the
\* backing array.
C7_Witness ==
    /\ MAX_RETRIES = 0
    /\ last.op = "tick"
    /\ last.compacted
    /\ last.issued = <<FALLBACK_URL>>
    /\ lastCall >= 2

\* C8: drop-oldest admission: an _enqueue that pushes a job into a queue
\* holding MAX_QUEUE_LEN jobs [j1..jN] leaves [j2..jN, new] and evicts j1;
\* into a queue holding fewer it leaves [j1..jk, new] and evicts nothing.
C8_DropOldest ==
    [][last'.pushed =>
         LET new == Pending'[Len(Pending')]
         IN  /\ Pending' # <<>>
             /\ new.id = nextId
             /\ new.retries = 0
             /\ new.url = enqLog'[nextId]
             /\ IF Len(Pending) = MAX_QUEUE_LEN
                THEN /\ Pending' = Append(Tail(Pending), new)
                     /\ last'.evicted = <<Head(Pending)>>
                ELSE /\ Len(Pending) < MAX_QUEUE_LEN
                     /\ Pending' = Append(Pending, new)
                     /\ last'.evicted = <<>>]_vars

\* C8 witness: capacity 3, four getURL calls and no tick: the queue holds
\* the jobs 2, 3, 4 and job 1 was evicted by the last call.
C8_Witness ==
    /\ MAX_QUEUE_LEN = 3
    /\ last.op = "enqueue"
    /\ Ids(last.evicted) = <<1>>
    /\ Ids(Pending) = <<2, 3, 4>>
    /\ lastCall = 0

\* C9: a tick that fires while _busy is true changes nothing: _q, _qHead,
\* _busy, _tickHandle are unchanged and no HTTP call is issued.
C9_BusyTickNoop ==
    [][(last'.op = "tick" /\ _busy) =>
         /\ UNCHANGED <<_q, _qHead, _busy, _tickHandle, inflight>>
         /\ Pending' = Pending
         /\ last'.issued = <<>>]_vars

\* C9 witness: a tick has just fired with a call outstanding and jobs
\* pending, and issued nothing.
C9_Witness ==
    /\ last.op = "tick"
    /\ last.issued = <<>>
    /\ _busy
    /\ Len(inflight) = 1
    /\ Pending # <<>>

\* C10: compaction is unobservable: the store (_q, _qHead) always holds the
\* contents of a plain FIFO driven by the same pushes, pops and drops; a
\* pop returns what the plain FIFO returns; and a step in which
\* _compactQueueIfNeeded fired ends with _qHead = 0 and the array holding
\* exactly the pending jobs.
C10_Refines ==
    /\ [](Pending = fifo)
    /\ [](last.compacted => _qHead = 0 /\ _q = fifo)
    /\ [][last'.issued # <<>> =>
            /\ fifo # <<>>
            /\ inflight' = Append(inflight, Head(fifo))]_vars

\* C10 witness: a pop has just compacted the array while jobs were pending.
C10_Witness ==
    /\ last.op = "tick"
    /\ last.compacted
    /\ last.issued # <<>>
    /\ _qHead = 0
    /\ Len(_q) >= 2

\* C11: _enqueue (and getURL) with an empty URL is a complete no-op: _q,
\* _qHead, _busy and _tickHandle are unchanged, nothing is evicted, no job is
\* pushed and the timer is not armed.
C11_EmptyUrlNoop ==
    [][(last'.op = "enqueue" /\ last'.url = <<>>) =>
         /\ UNCHANGED <<_q, _qHead, _busy, _tickHandle, inflight, nextId>>
         /\ ~last'.pushed
         /\ ~last'.timerSet
         /\ last'.evicted = <<>>]_vars

\* C11 witness: getURL('') has just been called on a full queue.
C11_Witness ==
    /\ last.op = "enqueue"
    /\ last.url = <<>>
    /\ _queueLen(_q, _qHead) = MAX_QUEUE_LEN

\* the step is a completion callback that took the fallback branch
C12_Case ==
    /\ last'.op = "complete"
    /\ last'.enq # <<>>
    /\ last'.enq[1].why = "fallback"

C13_NeverWedged == _busy ~> ~_busy

\* C14: in every reachable state 0 <= _qHead <= _q.length, so the logical
\* length is never negative.
C14_HeadInRange ==
    /\ 0 <= _qHead
    /\ _qHead <= Len(_q)
    /\ _queueLen(_q, _qHead) >= 0

\* C14 witness: a tick has popped the last job, the head stands at the end
\* of a non-empty backing array.
C14_Witness ==
    /\ last.op = "tick"
    /\ last.issued # <<>>
    /\ _qHead > 0
    /\ _qHead = Len(_q)

\* C15: the tick scheduler is armed by the first push and never leaves
\* Armed: Timer.set is only called while _tickHandle is null, the first push
\* calls it, and _tickHandle, once non-null, never becomes null again.
C15_ArmedOnce ==
    /\ [][last'.timerSet => (_tickHandle = NULL /\ last'.pushed)]_vars
    /\ [][(_tickHandle = NULL /\ last'.pushed) =>
            (last'.timerSet /\ _tickHandle' # NULL)]_vars
    /\ [][_tickHandle # NULL => (_tickHandle' # NULL /\ ~last'.timerSet)]_vars
    /\ [](_tickHandle = NULL <=> nextId = 1)

\* C15 witness: a fallback is pushed by a completion callback while the timer
\* is armed, and no second timer is created.
C15_Witness ==
    /\ last.op = "complete"
    /\ last.pushed
    /\ ~last.timerSet
    /\ _tickHandle # NULL
    /\ nextId >= 3

\* C16: _busy is true if and only if one call is outstanding.
C16_BusyIffOutstanding == _busy <=> (Len(inflight) = 1)

\* C17: with MAX_RETRIES >= 1 a failed job below its retry limit is
\* re-enqueued at the tail, and the queued retry carries the failed job's
\* retry count plus one.
C17_RetryCounted ==
    [][(last'.op = "complete" /\ last'.enq # <<>> /\ last'.enq[1].why = "retry") =>
         /\ Pending' # <<>>
         /\ \E i \in DOMAIN inflight :
               /\ Pending'[Len(Pending')].url = inflight[i].url
               /\ Pending'[Len(Pending')].retries = inflight[i].retries + 1]_vars

\* C18: no lost wakeup: whenever the logical queue is non-empty the recurring
\* timer is armed.
C18_NoLostWakeup == (Pending # <<>>) => (_tickHandle # NULL)

\* C18 witness: the first push has just armed the timer.
C18_Witness ==
    /\ last.op = "enqueue"
    /\ last.timerSet
    /\ Pending # <<>>
    /\ _tickHandle = TIMER_HANDLE

\* C19: each queue entry is consumed exactly once. Pending jobs are entries
\* of distinct earlier pushes of a non-empty URL that no call was issued for;
\* a tick issues its call for the head entry and removes it; an eviction
\* removes the oldest pending entry, which no call was issued for and which
\* is older than everything left, and leaves the calls in flight alone.
C19_ConsumedOnce ==
    /\ [](\A k \in DOMAIN Pending :
            /\ Pending[k].id > lastCall
            /\ Pending[k].id < nextId
            /\ Pending[k].id \in DOMAIN enqLog
            /\ enqLog[Pending[k].id] = Pending[k].url
            /\ Pending[k].url # <<>>
            /\ \A m \in DOMAIN Pending : k < m => Pending[k].id < Pending[m].id)
    /\ [](\A i \in DOMAIN inflight :
            /\ inflight[i].id <= lastCall
            /\ \A k \in DOMAIN Pending : Pending[k].id # inflight[i].id)
    /\ [][last'.issued # <<>> =>
            /\ Pending # <<>>
            /\ lastCall' = Head(Pending).id
            /\ lastCall' > lastCall
            /\ Pending' = Tail(Pending)
            /\ inflight' = Append(inflight, Head(Pending))]_vars
    /\ [][last'.evicted # <<>> =>
            /\ Pending # <<>>
            /\ last'.evicted = <<Head(Pending)>>
            /\ last'.evicted[1].id > lastCall
            /\ \A k \in DOMAIN Pending' : Pending'[k].id > last'.evicted[1].id
            /\ \A i \in DOMAIN inflight' :
                  \E m \in DOMAIN inflight : inflight'[i] = inflight[m]]_vars

\* C19 witness: an external enqueue has evicted a pending job while a call
\* is in flight.
C19_Witness ==
    /\ last.op = "enqueue"
    /\ last.evicted # <<>>
    /\ Len(inflight) = 1
    /\ lastCall >= 1
    /\ last.evicted[1].id > inflight[1].id

\* C20: fallback chains are bounded, so with MAX_RETRIES = 0, if external
\* enqueues stop, the queue eventually becomes and stays empty.
C20_Drains ==
    (MAX_RETRIES = 0 /\ <>[][last'.op # "enqueue"]_vars) => <>[](Pending = <<>>)

====
